---- MODULE Spec2Model ----
(***************************************************************************)
(* Model of notebooks/data_ingestion/codecfake_upload_to_huggingface.ipynb *)
(* (cells 6 to 10): create_df, the distinct audio_id count, the chunk-size *)
(* search find_best_chunk_size, the chunking loop with save_chunk, the     *)
(* construction of dataset_dict and push_to_hub.                           *)
(*                                                                         *)
(* Strings are sequences of one-character strings, so that startswith,     *)
(* endswith, slicing, comparison and decimal formatting are computed.      *)
(***************************************************************************)
EXTENDS Integers, Sequences, FiniteSets, TLC

VARIABLES
    audio_dir,               \* the directory tree os.walk visits, in walk order
    desired_chunk_size_min,  \* cell 8 setting
    desired_chunk_size_max,  \* cell 8 setting
    bound,                   \* the global names the kernel has bound so far
    df,                      \* rows built by create_df
    unique_audio_ids,
    chunk_size,
    num_chunks,
    stdout,                  \* what cell 8 printed
    chunk_index,
    datasets,                \* list of (chunk_name, ds_chunk)
    current_chunk,
    audio_ids_so_far,
    grouped,                 \* the group keys in the order groupby iterates them
    it,                      \* position of the for loop in grouped
    dataset_dict,
    hub,                     \* what push_to_hub has sent to the repository
    error,                   \* the exception that ended the last failing cell
    calls,                   \* number of calls of find_best_chunk_size by cell 8
    call,                    \* a direct call of find_best_chunk_size
    pc

vars == << audio_dir, desired_chunk_size_min, desired_chunk_size_max, bound, df,
           unique_audio_ids, chunk_size, num_chunks, stdout, chunk_index, datasets,
           current_chunk, audio_ids_so_far, grouped, it, dataset_dict, hub, error,
           calls, call, pc >>

(***************************************************************************)
(* Bounds of the model.                                                    *)
(***************************************************************************)
MaxDirs == 3      \* directories in the walked tree of a pipeline run
MaxSize == 3      \* largest chunk size setting
MaxPlanDirs == 4  \* directories behind the data frame given to the chunking cell
MaxIds == 12      \* largest total_ids of a direct call
MaxBound == 6     \* largest min_size / max_size of a direct call
MaxNeg == 2       \* direct calls take bounds from -MaxNeg up

(***************************************************************************)
(* Python strings.                                                         *)
(***************************************************************************)
Min(a, b) == IF a <= b THEN a ELSE b

startswith(s, prefix) ==
    Len(s) >= Len(prefix) /\ SubSeq(s, 1, Len(prefix)) = prefix

endswith(s, suffix) ==
    Len(s) >= Len(suffix) /\ SubSeq(s, Len(s) - Len(suffix) + 1, Len(s)) = suffix

\* s[:n]
slice_to(s, n) == SubSeq(s, 1, Min(n, Len(s)))

\* code points of the characters that occur in directory names
ord(c) ==
    CASE c = "1" -> 49
      [] c = "2" -> 50
      [] c = "A" -> 65
      [] c = "B" -> 66
      [] c = "C" -> 67
      [] c = "S" -> 83

\* a < b on Python strings: by code point, a proper prefix first
RECURSIVE str_lt(_, _)
str_lt(a, b) ==
    IF b = << >> THEN FALSE
    ELSE IF a = << >> THEN TRUE
    ELSE IF Head(a) = Head(b) THEN str_lt(Tail(a), Tail(b))
    ELSE ord(Head(a)) < ord(Head(b))

\* str(n) of a natural number
digit(d) == << "0", "1", "2", "3", "4", "5", "6", "7", "8", "9" >>[d + 1]

RECURSIVE str(_)
str(n) == IF n < 10 THEN << digit(n) >> ELSE str(n \div 10) \o << digit(n % 10) >>

\* a % b of Python integers, for b # 0: the result has the sign of b
py_mod(a, b) == IF b > 0 THEN a % b ELSE 0 - ((0 - a) % (0 - b))

(***************************************************************************)
(* The inputs: directory names and file lists.                             *)
(***************************************************************************)
DirA == << "A" >>
DirB2 == << "B", "2" >>
DirC == << "C" >>
DirSSA == << "S", "S", "A" >>
DirSSB1 == << "S", "S", "B", "1" >>
DirNames == { DirA, DirB2, DirC, DirSSA, DirSSB1 }

F01_x_flac == << "F", "0", "1", "_", "x", ".", "f", "l", "a", "c" >>
real_flac == << "r", "e", "a", "l", ".", "f", "l", "a", "c" >>
F1x_flac == << "F", "1", "x", ".", "f", "l", "a", "c" >>
F02_wav == << "F", "0", "2", ".", "w", "a", "v" >>
FileLists == { << F01_x_flac, real_flac >>, << F1x_flac, F02_wav >> }

Directory == [name : DirNames, files : FileLists]

Trees == UNION { [1..n -> Directory] : n \in 0..MaxDirs }

PlanDirectory == [name : DirNames, files : { << F01_x_flac, real_flac >> }]

PlanTrees == UNION { [1..n -> PlanDirectory] : n \in 0..MaxPlanDirs }

(***************************************************************************)
(* create_df (cell 6).                                                     *)
(***************************************************************************)
SSB == << "S", "S", "B" >>
F0 == << "F", "0" >>
dot_flac == << ".", "f", "l", "a", "c" >>

\* mutant of skipped: no directory is skipped
skipped_never(audio_id) == FALSE

\* if audio_id.startswith('SSB'): print(...); continue
skipped(audio_id) == startswith(audio_id, SSB)

\* mutant of real_or_fake: any name starting with F counts as fake
real_or_fake_any_F(file) ==
    IF startswith(file, << "F" >>) THEN slice_to(file, 3) ELSE << "R" >>

\* the label computed from the file name
real_or_fake(file) == IF startswith(file, F0) THEN slice_to(file, 3) ELSE << "R" >>

\* the rows one directory contributes; root stands for the directory's path,
\* the audio_id is the base name of the directory that holds the file
RECURSIVE rows_of_files(_, _, _)
rows_of_files(root, audio_id, files) ==
    IF files = << >> THEN << >>
    ELSE LET file == Head(files)
             rest == rows_of_files(root, audio_id, Tail(files))
         IN  IF ~endswith(file, dot_flac) THEN rest
             ELSE IF skipped(audio_id) THEN rest
             ELSE << [audio |-> [root |-> root, file |-> file],
                      audio_id |-> audio_id,
                      real_or_fake |-> real_or_fake(file)] >> \o rest

RECURSIVE rows_of_walk(_, _)
rows_of_walk(tree, root) ==
    IF root > Len(tree) THEN << >>
    ELSE rows_of_files(root, tree[root].name, tree[root].files)
             \o rows_of_walk(tree, root + 1)

create_df(tree) == rows_of_walk(tree, 1)

\* df['audio_id'].nunique()
nunique(frame) == Cardinality({ frame[i].audio_id : i \in DOMAIN frame })

(***************************************************************************)
(* find_best_chunk_size (cell 8).  The outcome of a call is a record: kind *)
(* is "return" with the value returned, or the name of the exception.      *)
(***************************************************************************)
Return(v) == [kind |-> "return", value |-> v]
Raise(exc) == [kind |-> exc, value |-> 0]

\* mutant of scan_sizes: an exhausted search falls back to min_size
RECURSIVE scan_sizes_fallback(_, _, _)
scan_sizes_fallback(total_ids, size, min_size) ==
    IF size < min_size THEN Return(min_size)
    ELSE IF size = 0 THEN Raise("ZeroDivisionError")
    ELSE IF py_mod(total_ids, size) = 0 THEN Return(size)
    ELSE scan_sizes_fallback(total_ids, size - 1, min_size)

\* the for loop from the candidate size downwards
RECURSIVE scan_sizes(_, _, _)
scan_sizes(total_ids, size, min_size) ==
    IF size < min_size THEN Raise("ValueError")
    ELSE IF size = 0 THEN Raise("ZeroDivisionError")
    ELSE IF py_mod(total_ids, size) = 0 THEN Return(size)
    ELSE scan_sizes(total_ids, size - 1, min_size)

\* mutant of find_best_chunk_size: the range leaves max_size out
find_best_below_max(total_ids, min_size, max_size) ==
    scan_sizes(total_ids, max_size - 1, min_size)

find_best_chunk_size(total_ids, min_size, max_size) ==
    scan_sizes(total_ids, max_size, min_size)

\* mutant of try_except: the handler falls back to one chunk for all groups
try_except_fallback(outcome, total_ids) ==
    IF outcome.kind = "return"
    THEN [binds |-> { "chunk_size", "num_chunks" }, chunk_size |-> outcome.value,
          num_chunks |-> total_ids \div outcome.value, stdout |-> "Chunk Size",
          error |-> ""]
    ELSE IF outcome.kind = "ValueError"
    THEN [binds |-> { "chunk_size", "num_chunks" }, chunk_size |-> total_ids,
          num_chunks |-> 1,
          stdout |-> "No suitable chunk size found within the given range.",
          error |-> ""]
    ELSE [binds |-> {}, chunk_size |-> 0, num_chunks |-> 0, stdout |-> "",
          error |-> outcome.kind]

\* what the try / except of cell 8 leaves behind for an outcome of the call:
\* the names it binds, their values, and whether the exception escapes the cell
try_except(outcome, total_ids) ==
    IF outcome.kind = "return"
    THEN [binds |-> { "chunk_size", "num_chunks" }, chunk_size |-> outcome.value,
          num_chunks |-> total_ids \div outcome.value, stdout |-> "Chunk Size",
          error |-> ""]
    ELSE IF outcome.kind = "ValueError"
    THEN [binds |-> {}, chunk_size |-> 0, num_chunks |-> 0,
          stdout |-> "No suitable chunk size found within the given range.",
          error |-> ""]
    ELSE [binds |-> {}, chunk_size |-> 0, num_chunks |-> 0, stdout |-> "",
          error |-> outcome.kind]

(***************************************************************************)
(* The chunking cell (cell 9).                                             *)
(***************************************************************************)
\* the keys of df.groupby('audio_id') in iteration order: groupby sorts the
\* group keys (sort=True is the default)
RECURSIVE sorted_keys(_)
sorted_keys(keys) ==
    IF keys = {} THEN << >>
    ELSE LET least == CHOOSE k \in keys : \A o \in keys \ {k} : str_lt(k, o)
         IN  << least >> \o sorted_keys(keys \ {least})

\* mutant of group_keys: the keys in the order they first occur (sort=False)
RECURSIVE first_seen(_, _)
first_seen(frame, seen) ==
    IF frame = << >> THEN << >>
    ELSE IF Head(frame).audio_id \in seen THEN first_seen(Tail(frame), seen)
    ELSE << Head(frame).audio_id >>
             \o first_seen(Tail(frame), seen \cup { Head(frame).audio_id })

group_keys_unsorted(frame) == first_seen(frame, {})

group_keys(frame) == sorted_keys({ frame[i].audio_id : i \in DOMAIN frame })

\* mutant of group_records: only the first row of the group
group_records_first(frame, audio_id) ==
    LET in_group(row) == row.audio_id = audio_id
    IN  SubSeq(SelectSeq(frame, in_group), 1, 1)

\* group.to_dict('records'): the rows of one group, in the order of df
group_records(frame, audio_id) ==
    LET in_group(row) == row.audio_id = audio_id IN SelectSeq(frame, in_group)

\* mutant of chunk_name: numbered from 1
chunk_name_from_one(index) ==
    << "p", "a", "r", "t", "i", "t", "i", "o", "n" >> \o str(index + 1)

\* chunk_name = f"partition{chunk_index}"
chunk_name(index) == << "p", "a", "r", "t", "i", "t", "i", "o", "n" >> \o str(index)

\* save_chunk: the pair appended to datasets
save_chunk(chunk_data, index) == [name |-> chunk_name(index), rows |-> chunk_data]

\* mutant of chunk_full: >= instead of >
chunk_full_early(ids_so_far, size) == Cardinality(ids_so_far) + 1 >= size

\* if len(audio_ids_so_far) + 1 > chunk_size
chunk_full(ids_so_far, size) == Cardinality(ids_so_far) + 1 > size

\* mutant of has_remaining: the last chunk is never saved
has_remaining_never(chunk_data) == FALSE

\* if current_chunk:
has_remaining(chunk_data) == chunk_data # << >>

\* DatasetDict({chunk_name: ds for chunk_name, ds in datasets}): a later pair
\* replaces an earlier one of the same name
make_dict(pairs) ==
    [n \in { pairs[i].name : i \in DOMAIN pairs } |->
        LET last == CHOOSE i \in DOMAIN pairs :
                        /\ pairs[i].name = n
                        /\ \A j \in DOMAIN pairs : pairs[j].name = n => j <= i
        IN  pairs[last].rows]

(***************************************************************************)
(* The notebook run from a fresh kernel: cells 6 to 10 in order.  A cell   *)
(* that raises stops there, keeps the bindings it made before the raise,   *)
(* and the next cell may still be run.                                     *)
(***************************************************************************)
NoCall == [total_ids |-> 0, min_size |-> 0, max_size |-> 0, outcome |-> Raise("none")]

Unbound ==
    /\ bound = {}
    /\ df = << >>
    /\ unique_audio_ids = 0
    /\ chunk_size = 0
    /\ num_chunks = 0
    /\ stdout = ""
    /\ chunk_index = 0
    /\ datasets = << >>
    /\ current_chunk = << >>
    /\ audio_ids_so_far = {}
    /\ grouped = << >>
    /\ it = 0
    /\ dataset_dict = << >>
    /\ hub = << >>
    /\ error = ""
    /\ calls = 0

Init ==
    /\ audio_dir \in Trees
    /\ desired_chunk_size_min \in 0..MaxSize
    /\ desired_chunk_size_max \in desired_chunk_size_min..MaxSize
    /\ Unbound
    /\ call = NoCall
    /\ pc = "cell6"

\* cell 6: df = create_df(audio_dir)
Cell6 ==
    /\ pc = "cell6"
    /\ df' = create_df(audio_dir)
    /\ bound' = bound \cup { "df" }
    /\ error' = ""
    /\ pc' = "cell7"
    /\ UNCHANGED << audio_dir, desired_chunk_size_min, desired_chunk_size_max,
                    unique_audio_ids, chunk_size, num_chunks, stdout, chunk_index,
                    datasets, current_chunk, audio_ids_so_far, grouped, it,
                    dataset_dict, hub, calls, call >>

\* cell 7: unique_audio_ids = df['audio_id'].nunique(); a DataFrame built from
\* an empty list has no column audio_id
Cell7 ==
    /\ pc = "cell7"
    /\ IF df = << >>
       THEN /\ error' = "KeyError"
            /\ UNCHANGED << bound, unique_audio_ids >>
       ELSE /\ unique_audio_ids' = nunique(df)
            /\ bound' = bound \cup { "unique_audio_ids" }
            /\ error' = ""
    /\ pc' = "cell8"
    /\ UNCHANGED << audio_dir, desired_chunk_size_min, desired_chunk_size_max, df,
                    chunk_size, num_chunks, stdout, chunk_index, datasets,
                    current_chunk, audio_ids_so_far, grouped, it, dataset_dict, hub,
                    calls, call >>

\* cell 8: the settings, the def, and the try / except around the call
Cell8 ==
    /\ pc = "cell8"
    /\ IF "unique_audio_ids" \notin bound
       THEN /\ error' = "NameError"
            /\ bound' = bound \cup { "desired_chunk_size_min", "desired_chunk_size_max",
                                     "find_best_chunk_size" }
            /\ UNCHANGED << chunk_size, num_chunks, stdout, calls >>
       ELSE LET outcome == find_best_chunk_size(unique_audio_ids,
                               desired_chunk_size_min, desired_chunk_size_max)
                after == try_except(outcome, unique_audio_ids)
            IN  /\ calls' = calls + 1
                /\ bound' = bound \cup { "desired_chunk_size_min",
                                "desired_chunk_size_max", "find_best_chunk_size" }
                                \cup after.binds
                /\ chunk_size' = IF "chunk_size" \in after.binds
                                 THEN after.chunk_size ELSE chunk_size
                /\ num_chunks' = IF "num_chunks" \in after.binds
                                 THEN after.num_chunks ELSE num_chunks
                /\ stdout' = after.stdout
                /\ error' = after.error
    /\ pc' = "cell9"
    /\ UNCHANGED << audio_dir, desired_chunk_size_min, desired_chunk_size_max, df,
                    unique_audio_ids, chunk_index, datasets, current_chunk,
                    audio_ids_so_far, grouped, it, dataset_dict, hub, call >>

\* cell 9, up to the for loop: the four assignments, groupby and the two defs;
\* groupby('audio_id') raises on a DataFrame without that column
Cell9 ==
    /\ pc = "cell9"
    /\ chunk_index' = 0
    /\ datasets' = << >>
    /\ current_chunk' = << >>
    /\ audio_ids_so_far' = {}
    /\ IF df = << >>
       THEN /\ error' = "KeyError"
            /\ bound' = bound \cup { "chunk_index", "datasets", "current_chunk",
                                     "audio_ids_so_far" }
            /\ pc' = "cell10"
            /\ UNCHANGED << grouped, it >>
       ELSE /\ grouped' = group_keys(df)
            /\ it' = 1
            /\ error' = ""
            /\ bound' = bound \cup { "chunk_index", "datasets", "current_chunk",
                                     "audio_ids_so_far", "grouped", "read_audio_file",
                                     "save_chunk" }
            /\ pc' = "for"
    /\ UNCHANGED << audio_dir, desired_chunk_size_min, desired_chunk_size_max, df,
                    unique_audio_ids, chunk_size, num_chunks, stdout, dataset_dict,
                    hub, calls, call >>

\* one iteration of the for loop over the groups
ForBody ==
    /\ pc = "for"
    /\ it <= Len(grouped)
    /\ LET audio_id == grouped[it] IN
       IF audio_id \in audio_ids_so_far
       THEN /\ it' = it + 1
            /\ UNCHANGED << datasets, current_chunk, audio_ids_so_far, chunk_index,
                            error, pc >>
       ELSE IF "chunk_size" \notin bound
       THEN /\ error' = "NameError"
            /\ pc' = "cell10"
            /\ UNCHANGED << datasets, current_chunk, audio_ids_so_far, chunk_index, it >>
       ELSE LET seal == chunk_full(audio_ids_so_far, chunk_size) IN
            /\ datasets' = IF seal
                           THEN Append(datasets, save_chunk(current_chunk, chunk_index))
                           ELSE datasets
            /\ chunk_index' = IF seal THEN chunk_index + 1 ELSE chunk_index
            /\ current_chunk' = (IF seal THEN << >> ELSE current_chunk)
                                    \o group_records(df, audio_id)
            /\ audio_ids_so_far' = (IF seal THEN {} ELSE audio_ids_so_far)
                                       \cup { audio_id }
            /\ it' = it + 1
            /\ UNCHANGED << error, pc >>
    /\ UNCHANGED << audio_dir, desired_chunk_size_min, desired_chunk_size_max, bound,
                    df, unique_audio_ids, chunk_size, num_chunks, stdout, grouped,
                    dataset_dict, hub, calls, call >>

\* the rest of cell 9 once the loop is exhausted: the last chunk, dataset_dict
AfterLoop ==
    /\ pc = "for"
    /\ it > Len(grouped)
    /\ datasets' = IF has_remaining(current_chunk)
                   THEN Append(datasets, save_chunk(current_chunk, chunk_index))
                   ELSE datasets
    /\ dataset_dict' = make_dict(datasets')
    /\ bound' = bound \cup { "dataset_dict" }
    /\ pc' = "cell10"
    /\ UNCHANGED << audio_dir, desired_chunk_size_min, desired_chunk_size_max, df,
                    unique_audio_ids, chunk_size, num_chunks, stdout, chunk_index,
                    current_chunk, audio_ids_so_far, grouped, it, hub, error, calls,
                    call >>

\* cell 10: dataset_dict.push_to_hub(repo_id)
Cell10 ==
    /\ pc = "cell10"
    /\ IF "dataset_dict" \notin bound
       THEN /\ error' = "NameError"
            /\ bound' = bound \cup { "repo_id" }
            /\ UNCHANGED hub
       ELSE /\ hub' = << dataset_dict >>
            /\ bound' = bound \cup { "repo_id" }
            /\ error' = ""
    /\ pc' = "done"
    /\ UNCHANGED << audio_dir, desired_chunk_size_min, desired_chunk_size_max, df,
                    unique_audio_ids, chunk_size, num_chunks, stdout, chunk_index,
                    datasets, current_chunk, audio_ids_so_far, grouped, it,
                    dataset_dict, calls, call >>

Next == Cell6 \/ Cell7 \/ Cell8 \/ Cell9 \/ ForBody \/ AfterLoop \/ Cell10

Spec == Init /\ [][Next]_vars

(***************************************************************************)
(* The chunking cell on its own: cell 9 run with any chunk_size >= 1 bound *)
(* in the kernel, on the data frame create_df builds from a tree of up to  *)
(* MaxPlanDirs directories of two audio files each; directories that share *)
(* a name give groups of four and more rows.                               *)
(***************************************************************************)
InitPlan ==
    /\ audio_dir \in PlanTrees
    /\ df = create_df(audio_dir)
    /\ chunk_size \in 1..MaxSize
    /\ bound = { "df", "chunk_size" }
    /\ desired_chunk_size_min = 0
    /\ desired_chunk_size_max = 0
    /\ unique_audio_ids = 0
    /\ num_chunks = 0
    /\ stdout = ""
    /\ chunk_index = 0
    /\ datasets = << >>
    /\ current_chunk = << >>
    /\ audio_ids_so_far = {}
    /\ grouped = << >>
    /\ it = 0
    /\ dataset_dict = << >>
    /\ hub = << >>
    /\ error = ""
    /\ calls = 0
    /\ call = NoCall
    /\ pc = "cell9"

NextPlan == Cell9 \/ ForBody \/ AfterLoop

SpecPlan == InitPlan /\ [][NextPlan]_vars

(***************************************************************************)
(* find_best_chunk_size on its own: one call on arguments from bounded     *)
(* sets, and the call of the recorded run (35433 ids, sizes 90 to 110).    *)
(***************************************************************************)
Pending == Raise("pending")

RecordedCall == [total_ids |-> 35433, min_size |-> 90, max_size |-> 110,
                 outcome |-> Pending]

Calls ==
    { [total_ids |-> t, min_size |-> mn, max_size |-> mx, outcome |-> Pending] :
        t \in 1..MaxIds, mn \in (0 - MaxNeg)..MaxBound, mx \in (0 - MaxNeg)..MaxBound }

InitFind ==
    /\ call \in { c \in Calls : c.min_size <= c.max_size } \cup { RecordedCall }
    /\ audio_dir = << >>
    /\ desired_chunk_size_min = 0
    /\ desired_chunk_size_max = 0
    /\ Unbound
    /\ pc = "call"

FindCall ==
    /\ pc = "call"
    /\ call' = [call EXCEPT !.outcome =
                   find_best_chunk_size(call.total_ids, call.min_size, call.max_size)]
    /\ pc' = "returned"
    /\ UNCHANGED << audio_dir, desired_chunk_size_min, desired_chunk_size_max, bound,
                    df, unique_audio_ids, chunk_size, num_chunks, stdout, chunk_index,
                    datasets, current_chunk, audio_ids_so_far, grouped, it,
                    dataset_dict, hub, error, calls >>

NextFind == FindCall

SpecFind == InitFind /\ [][NextFind]_vars

(***************************************************************************)
(* Properties of find_best_chunk_size, under SpecFind.                     *)
(***************************************************************************)
Abs(n) == IF n < 0 THEN 0 - n ELSE n

\* s evenly divides t
Divides(s, t) == s # 0 /\ (t \div Abs(s)) * Abs(s) = t

\* the divisors of the call's total_ids within its bounds
Divisors(c) == { s \in c.min_size..c.max_size : Divides(s, c.total_ids) }

Largest(S) == CHOOSE s \in S : \A o \in S : o <= s

Returned == pc = "returned"

IsFlac(file) ==
    /\ Len(file) >= 5
    /\ file[Len(file) - 4] = "."
    /\ file[Len(file) - 3] = "f"
    /\ file[Len(file) - 2] = "l"
    /\ file[Len(file) - 1] = "a"
    /\ file[Len(file)] = "c"

IsExcluded(id) == Len(id) >= 3 /\ id[1] = "S" /\ id[2] = "S" /\ id[3] = "B"

\* the audio files of the tree that are not excluded, as (directory, file)
InputItems ==
    UNION { { [root |-> i, file |-> audio_dir[i].files[k]] :
                k \in { n \in DOMAIN audio_dir[i].files : IsFlac(audio_dir[i].files[n]) } } :
            i \in { d \in DOMAIN audio_dir : ~IsExcluded(audio_dir[d].name) } }

RetainedIds == { audio_dir[item.root].name : item \in InputItems }

ChunkIds(k) == { datasets[k].rows[j].audio_id : j \in DOMAIN datasets[k].rows }

\* the places (chunk, position) of the plan
Places == UNION { { << k, j >> : j \in DOMAIN datasets[k].rows } : k \in DOMAIN datasets }

PlacesOf(item) == { kj \in Places : datasets[kj[1]].rows[kj[2]].audio = item }

\* cell 9 is over: it built dataset_dict, or groupby raised
Cell9Over == pc = "cell10"

PlanBuilt == pc = "cell10" /\ "dataset_dict" \in bound

\* C3: the plan is a partition of the retained groups: the chunks' group ids
\* together are the non-excluded input group ids, no group id is in two chunks,
\* and every item is placed exactly once, in the chunk of its group.
C3_Partition ==
    /\ \A k, l \in DOMAIN datasets : k # l => ChunkIds(k) \cap ChunkIds(l) = {}
    /\ pc = "for" =>
           /\ { current_chunk[j].audio_id : j \in DOMAIN current_chunk } = audio_ids_so_far
           /\ \A k \in DOMAIN datasets : ChunkIds(k) \cap audio_ids_so_far = {}
    /\ Cell9Over =>
           /\ UNION { ChunkIds(k) : k \in DOMAIN datasets } = RetainedIds
           /\ \A item \in InputItems : Cardinality(PlacesOf(item)) = 1
           /\ \A kj \in Places :
                  LET row == datasets[kj[1]].rows[kj[2]]
                  IN  /\ row.audio \in InputItems
                      /\ row.audio_id = audio_dir[row.audio.root].name

C3_Witness ==
    /\ PlanBuilt
    /\ Len(datasets) = 2
    /\ Cardinality(RetainedIds) = 2
    /\ \E i \in DOMAIN audio_dir : IsExcluded(audio_dir[i].name)
    /\ \E k \in DOMAIN datasets : Len(datasets[k].rows) > 2 * Cardinality(ChunkIds(k))

\* C4: every chunk except possibly the last holds exactly chunk_size distinct
\* group ids, whatever the number of rows of its groups; while the loop runs
\* every saved chunk is such a chunk.
C4_FullChunks ==
    \A k \in DOMAIN datasets :
        (pc = "for" \/ k < Len(datasets)) => Cardinality(ChunkIds(k)) = chunk_size

C4_Witness ==
    /\ PlanBuilt
    /\ chunk_size = 2
    /\ Len(datasets) = 2
    /\ Cardinality(ChunkIds(1)) = 2
    /\ Len(datasets[1].rows) = 6
    /\ Cardinality(ChunkIds(2)) = 1

\* the chunk a group id is in, and the positions of its rows there
ChunkOf(id) == CHOOSE k \in DOMAIN datasets : id \in ChunkIds(k)

RowsOf(id) ==
    { j \in DOMAIN datasets[ChunkOf(id)].rows : datasets[ChunkOf(id)].rows[j].audio_id = id }

PlacedBefore(a, b) ==
    /\ ChunkOf(a) <= ChunkOf(b)
    /\ ChunkOf(a) = ChunkOf(b) => \A i \in RowsOf(a), j \in RowsOf(b) : i < j

\* the position in df of the first row of a group
FirstRow(id) ==
    CHOOSE i \in DOMAIN df :
        /\ df[i].audio_id = id
        /\ \A j \in DOMAIN df : df[j].audio_id = id => i <= j

\* C5 as stated: groups are placed in the order in which they are first
\* encountered in the input: a group whose first row comes earlier is in an
\* earlier or the same chunk and, within one chunk, its rows come first.
C5_AsStated ==
    PlanBuilt =>
        \A a, b \in RetainedIds : FirstRow(a) < FirstRow(b) => PlacedBefore(a, b)

\* C5, amended: groups are placed in ascending order of their group id (string
\* order), whatever the order in which they are encountered: the group with
\* the smaller id is in an earlier or the same chunk and, within one chunk,
\* its rows come first.
C5_SortedOrder ==
    PlanBuilt => \A a, b \in RetainedIds : str_lt(a, b) => PlacedBefore(a, b)

C5_Witness ==
    /\ PlanBuilt
    /\ Len(audio_dir) = 3
    /\ audio_dir[1].name = DirSSA
    /\ audio_dir[2].name = DirB2
    /\ audio_dir[3].name = DirA
    /\ chunk_size = 2
    /\ ChunkIds(1) = { DirA, DirB2 }
    /\ ChunkIds(2) = { DirSSA }

\* the name expected of the chunk of 0-based index i, for i < 10
PartitionName(i) ==
    << "p", "a", "r", "t", "i", "t", "i", "o", "n",
       << "0", "1", "2", "3", "4", "5", "6", "7", "8", "9" >>[i + 1] >>

\* C7: chunks are numbered from 0 in the order they are saved and chunk k is
\* named "partition<k>": the names are partition0 .. partition(n-1), none used
\* twice, and dataset_dict has one entry per chunk, keyed by that name.
C7_Names ==
    /\ \A k \in DOMAIN datasets : datasets[k].name = PartitionName(k - 1)
    /\ \A k, l \in DOMAIN datasets : k # l => datasets[k].name # datasets[l].name
    /\ pc = "for" => chunk_index = Len(datasets)
    /\ PlanBuilt =>
           /\ Cardinality(DOMAIN dataset_dict) = Len(datasets)
           /\ \A k \in DOMAIN datasets : dataset_dict[datasets[k].name] = datasets[k].rows

C7_Witness ==
    /\ PlanBuilt
    /\ Len(datasets) = 4
    /\ DOMAIN dataset_dict =
           { PartitionName(0), PartitionName(1), PartitionName(2), PartitionName(3) }

\* the chunk sizes find_best_chunk_size returns for g groups, with what cell 8
\* then prints as the number of chunks
Selected(g) ==
    { try_except(find_best_chunk_size(g, mn, mx), g) : mn \in 1..MaxSize, mx \in 1..MaxSize }

\* C9: no chunk is empty, the last chunk is short only if chunk_size does not
\* divide the number G of retained groups, and the plan has ceil(G / chunk_size)
\* chunks (none for G = 0); so for a chunk_size that find_best_chunk_size
\* returns for G the plan has the printed num_chunks = G / chunk_size chunks,
\* all of them full.
C9_ChunkCount ==
    LET G == Cardinality(RetainedIds) IN
    /\ \A k \in DOMAIN datasets : datasets[k].rows # << >>
    /\ Cell9Over =>
           /\ Len(datasets) = (G + chunk_size - 1) \div chunk_size
           /\ \A k \in DOMAIN datasets :
                  Cardinality(ChunkIds(k)) < chunk_size
                      => (k = Len(datasets) /\ G % chunk_size # 0)
           /\ \A sel \in Selected(G) :
                  (G > 0 /\ "chunk_size" \in sel.binds /\ sel.chunk_size = chunk_size)
                      => /\ Len(datasets) = sel.num_chunks
                         /\ \A k \in DOMAIN datasets :
                                Cardinality(ChunkIds(k)) = chunk_size

C9_Witness ==
    /\ PlanBuilt
    /\ Cardinality(RetainedIds) = 4
    /\ chunk_size = 3
    /\ Len(datasets) = 2
    /\ Cardinality(ChunkIds(2)) = 1

(***************************************************************************)
(* Properties of the whole run, under Spec.                                *)
(***************************************************************************)
\* every row the run holds anywhere: in df, in the open chunk, in the saved
\* chunks, in dataset_dict and on the hub
RowsIn(rows) == { rows[j] : j \in DOMAIN rows }

HubRows ==
    UNION { UNION { RowsIn(hub[h][n]) : n \in DOMAIN hub[h] } : h \in DOMAIN hub }

AllRows ==
    RowsIn(df) \cup RowsIn(current_chunk)
        \cup UNION { RowsIn(datasets[k].rows) : k \in DOMAIN datasets }
        \cup UNION { RowsIn(dataset_dict[n]) : n \in DOMAIN dataset_dict }
        \cup HubRows

\* the directories of the tree that hold an audio file and are excluded
ExcludedDirs ==
    { i \in DOMAIN audio_dir :
        /\ IsExcluded(audio_dir[i].name)
        /\ \E k \in DOMAIN audio_dir[i].files : IsFlac(audio_dir[i].files[k]) }

\* C6: an item whose group id begins with "SSB" is dropped before grouping: it
\* is in no row of df, of a chunk, of dataset_dict or of the hub, its id is not
\* counted in unique_audio_ids, and it never enters a chunk's running id set.
C6_Excluded ==
    /\ \A row \in AllRows :
           /\ ~IsExcluded(row.audio_id)
           /\ row.audio.root \notin ExcludedDirs
    /\ "unique_audio_ids" \in bound => unique_audio_ids = Cardinality(RetainedIds)
    /\ \A id \in audio_ids_so_far : ~IsExcluded(id)
    /\ \A i \in DOMAIN grouped : ~IsExcluded(grouped[i])

C6_Witness ==
    /\ pc = "done"
    /\ hub # << >>
    /\ HubRows # {}
    /\ ExcludedDirs # {}
    /\ unique_audio_ids = 2
    /\ Len(audio_dir) = 3

\* C8: the label of a row is the first three characters of its file name when
\* the name starts with "F0", and "R" for every other name; "F01_x.flac" gives
\* "F01" and "real.flac" gives "R".
C8_Labels ==
    \A row \in AllRows :
        LET file == row.audio.file IN
        /\ (Len(file) >= 3 /\ file[1] = "F" /\ file[2] = "0")
               => row.real_or_fake = << file[1], file[2], file[3] >>
        /\ ~(Len(file) >= 2 /\ file[1] = "F" /\ file[2] = "0")
               => row.real_or_fake = << "R" >>
        /\ file = F01_x_flac => row.real_or_fake = << "F", "0", "1" >>
        /\ file = real_flac => row.real_or_fake = << "R" >>

C8_Witness ==
    /\ pc = "done"
    /\ \E row \in HubRows : row.audio.file = F01_x_flac /\ row.real_or_fake = << "F", "0", "1" >>
    /\ \E row \in HubRows : row.audio.file = real_flac /\ row.real_or_fake = << "R" >>
    /\ \E row \in HubRows : row.audio.file = F1x_flac /\ row.real_or_fake = << "R" >>

\* cell 8 caught the ValueError of an exhausted search and printed its message
SearchFailed == stdout = "No suitable chunk size found within the given range."

\* C10: once the search has been exhausted without a divisor, the search is not
\* called again, chunk_size is never bound, no chunk is saved, dataset_dict is
\* never built, nothing is pushed, and the chunking cell ends in a NameError.
C10_FailureIsFatal ==
    /\ calls <= 1
    /\ SearchFailed =>
           /\ calls = 1
           /\ "chunk_size" \notin bound
           /\ "num_chunks" \notin bound
           /\ datasets = << >>
           /\ current_chunk = << >>
           /\ "dataset_dict" \notin bound
           /\ hub = << >>
           /\ pc \in { "cell10", "done" } => error = "NameError"

C10_Witness ==
    /\ pc = "done"
    /\ SearchFailed
    /\ unique_audio_ids = 3
    /\ desired_chunk_size_min = 2
    /\ desired_chunk_size_max = 2
    /\ error = "NameError"

====
